---- MODULE Spec2Model ----
(***************************************************************************)
(* WalletPay WebhookManager: the verification-and-dispatch pipeline of     *)
(* WebhookManager._handle_webhook, the client address resolver and the     *)
(* callback registry (src/WalletPay/WebhookManager.py).                    *)
(*                                                                         *)
(* Header values, paths and signatures are sequences of text tokens, so    *)
(* that splitting, joining and comparing them is computed, not assumed.    *)
(***************************************************************************)
EXTENDS Integers, Sequences, FiniteSets, TLC

\* ------------------------------------------------------------- bounds
\* Request slots (coroutine frames of _handle_webhook that can exist at once).
MaxRequests == 2
\* Longest callback list the model registers.
MaxCallbacks == 2

\* Longest failure list a start-up of the concurrent server has registered.
MaxFailedAtStart == 1

Requests == 1..MaxRequests

\* Callback handles the application may register.
Handlers == {"f1", "f2"}

\* ------------------------------------------------------------- values
\* Python's None object (headers.get on an absent header, an unset local).
None == <<"<None>">>

ALLOWED_IPS == {"172.255.248.29", "172.255.248.12", "127.0.0.1"}

\* client.api_key, the shared secret, and a key the provider does not hold.
ApiKey == "api-key"
OtherKey == "other-key"

\* Default webhook_endpoint of __init__: the locally parsed request.url.path.
WebhookEndpoint == <<"/wp_webhook">>

\* ------------------------------------------------------------- request bodies
BodyPaid == "[{\"type\":\"ORDER_PAID\"}]"
BodyFailed == "[{\"type\":\"ORDER_FAILED\"}]"
BodyOther == "[{\"type\":\"SOME_OTHER_TYPE\"}]"
BodyEmptyArray == "[]"
BodyMalformed == "[{\"type\":"

Bodies == {BodyPaid, BodyFailed, BodyOther, BodyEmptyArray, BodyMalformed}

\* base64.b64encode(raw_body).decode() of each body.
B64Encode(raw_body) ==
    CASE raw_body = BodyPaid -> <<"W3sidHlwZSI6Ik9SREVSX1BBSUQifV0=">>
      [] raw_body = BodyFailed -> <<"W3sidHlwZSI6Ik9SREVSX0ZBSUxFRCJ9XQ==">>
      [] raw_body = BodyOther -> <<"W3sidHlwZSI6IlNPTUVfT1RIRVJfVFlQRSJ9XQ==">>
      [] raw_body = BodyEmptyArray -> <<"W10=">>
      [] raw_body = BodyMalformed -> <<"W3sidHlwZSI6">>

JSONDecodeError == <<"JSONDecodeError">>

\* request.json(): the parsed array as the sequence of its elements' "type"
\* fields, or JSONDecodeError when the body is no JSON document.
RequestJson(raw_body) ==
    CASE raw_body = BodyPaid -> <<"ORDER_PAID">>
      [] raw_body = BodyFailed -> <<"ORDER_FAILED">>
      [] raw_body = BodyOther -> <<"SOME_OTHER_TYPE">>
      [] raw_body = BodyEmptyArray -> <<>>
      [] raw_body = BodyMalformed -> JSONDecodeError

\* Event(data[0]).type: the typed view's discriminator is the element's "type".
EventType(element) == element

\* ------------------------------------------------------------- headers
\* headers.get(name): the value, or None when the header is absent.
HeaderGet(headers, name) ==
    IF name \in DOMAIN headers THEN headers[name] ELSE None

\* Python truthiness of an Optional[str]: None and "" are falsy.
Truthy(v) == v # None /\ v # <<>>

\* Index of the first ", " separator of s at or after position i, 0 if none.
RECURSIVE FindSep(_, _)
FindSep(s, i) ==
    IF i + 1 > Len(s) THEN 0
    ELSE IF s[i] = "," /\ s[i + 1] = " " THEN i
    ELSE FindSep(s, i + 1)

\* str.split(", "): the pieces between the separators, in order.
RECURSIVE Split(_)
Split(s) ==
    LET k == FindSep(s, 1)
    IN IF k = 0 THEN <<s>>
       ELSE <<SubSeq(s, 1, k - 1)>> \o Split(SubSeq(s, k + 2, Len(s)))

\* Mutant: a substring test, any allowed IP inside the piece counts.
InAllowedIpsAnywhere(ip) == \E i \in 1..Len(ip) : ip[i] \in ALLOWED_IPS

\* `ip in self.ALLOWED_IPS` for a piece of the split header.
InAllowedIps(ip) == Len(ip) = 1 /\ ip[1] \in ALLOWED_IPS

\* Mutant: the loop keeps the last allowed piece instead of returning the
\* first.
RECURSIVE LastAllowed(_)
LastAllowed(ips) ==
    IF ips = <<>> THEN None
    ELSE IF LastAllowed(Tail(ips)) # None THEN LastAllowed(Tail(ips))
    ELSE IF Len(Head(ips)) = 1 /\ Head(ips)[1] \in ALLOWED_IPS THEN Head(ips)
    ELSE None

\* The for loop of __get_x_forwarded_for: the first allowed piece, else None.
RECURSIVE FirstAllowed(_)
FirstAllowed(ips) ==
    IF ips = <<>> THEN None
    ELSE IF InAllowedIps(Head(ips)) THEN Head(ips)
    ELSE FirstAllowed(Tail(ips))

\* WebhookManager.__get_x_forwarded_for
GetXForwardedFor(headers) ==
    LET x_forwarded_for == HeaderGet(headers, "X-Forwarded-For")
    IN IF Truthy(x_forwarded_for) THEN FirstAllowed(Split(x_forwarded_for))
       ELSE None

\* WebhookManager.__get_client_ip: the resolved IP, or the 403 HTTPException.
Forbidden == <<"HTTPException", "403", "IP not allowed">>

\* Mutant: the first forwarded piece is trusted without the allow-list test.
GetClientIpUnchecked(request) ==
    LET x_forwarded_for == HeaderGet(request.headers, "X-Forwarded-For")
        client_ip == <<request.client_host>>
    IN IF Truthy(x_forwarded_for) THEN Head(Split(x_forwarded_for))
       ELSE IF client_ip[1] \notin ALLOWED_IPS THEN Forbidden
       ELSE client_ip

GetClientIp(request) ==
    LET x_forwarded_for == GetXForwardedFor(request.headers)
        client_ip == <<request.client_host>>
    IN IF Truthy(x_forwarded_for) THEN x_forwarded_for
       ELSE IF ~InAllowedIps(client_ip) THEN Forbidden
       ELSE client_ip

\* ------------------------------------------------------------- signature
\* f"{...}" of an Optional[str]: None is formatted as the text None.
Format(v) == IF v = None THEN <<"None">> ELSE v

\* request.headers.get("X-Original-URI") or request.url.path
EffectivePath(request) ==
    LET original == HeaderGet(request.headers, "X-Original-URI")
    IN IF Truthy(original) THEN original ELSE request.url_path

\* message = f"{method}.{path}.{timestamp}.{base64.b64encode(raw_body).decode()}"
Message(method, path, timestamp, raw_body) ==
    method \o <<".">> \o Format(path) \o <<".">> \o Format(timestamp)
        \o <<".">> \o B64Encode(raw_body)

\* base64 of the HMAC-SHA256 digest: a deterministic injective keyed function.
HmacB64(key, message) == <<"hmac-sha256", key>> \o message

ExpectedSignature(request) ==
    HmacB64(ApiKey,
            Message(request.method, EffectivePath(request),
                    HeaderGet(request.headers, "WalletPay-Timestamp"),
                    request.body))

\* A header value with a character outside ASCII.
NonAscii == <<"\\xe9">>

TypeError == <<"TypeError">>

\* hmac.compare_digest(a, b) on str arguments: TypeError unless both are
\* ASCII-only str objects, otherwise equality.
CompareDigest(a, b) ==
    IF a = None \/ b = None \/ a = NonAscii \/ b = NonAscii THEN TypeError
    ELSE IF a = b THEN <<"True">> ELSE <<"False">>

\* ------------------------------------------------------------- responses
InvalidSignature == <<"HTTPException", "400", "Invalid signature">>
SuccessfulProcessed == <<"200", "Successful event processed!">>
FailedProcessed == <<"200", "Failed event processed!">>
UnknownStatus == <<"200", "Webhook received with unknown status!">>
IndexError == <<"IndexError">>
CallbackError == <<"CallbackError">>

\* Outcomes that are unhandled exceptions of the handler (no HTTPException).
Crashes == {JSONDecodeError, TypeError, IndexError, CallbackError}

\* Event(data[0]): the typed view, represented by its type discriminator.
Event(element) == <<EventType(element)>>

\* ------------------------------------------------------------- request inputs
HeaderNames ==
    {"X-Forwarded-For", "X-Original-URI", "WalletPay-Timestamp",
     "Walletpay-Signature"}

\* The header mapping holding exactly the headers whose value is not None.
MakeHeaders(xff, original, timestamp, signature) ==
    LET val == [n \in HeaderNames |->
                  CASE n = "X-Forwarded-For" -> xff
                    [] n = "X-Original-URI" -> original
                    [] n = "WalletPay-Timestamp" -> timestamp
                    [] n = "Walletpay-Signature" -> signature]
    IN [n \in {m \in HeaderNames : val[m] # None} |-> val[n]]

MakeRequest(peer, xff, original, timestamp, body, signature) ==
    [method |-> <<"POST">>, url_path |-> WebhookEndpoint, client_host |-> peer,
     headers |-> MakeHeaders(xff, original, timestamp, signature),
     body |-> body]

PeerValues == {"127.0.0.1", "10.0.0.5"}

\* X-Forwarded-For: absent, empty, one entry, a chain whose second entry is
\* the first allowed one, and a chain separated by "," without the space.
XffValues ==
    {None, <<>>, <<"10.0.0.5">>, <<"172.255.248.29">>,
     <<"10.0.0.5", ",", " ", "172.255.248.12", ",", " ", "127.0.0.1">>,
     <<"10.0.0.5", ",", "127.0.0.1">>}

OriginalUriValues == {None, <<>>, <<"/hook">>}

TimestampValues == {None, <<"1700000000">>}

\* What the sender puts in Walletpay-Signature for the rest of the request:
\* nothing, the digest the provider computes, the digest of another body
\* (the body was tampered with afterwards), a digest under another key, or
\* text outside ASCII.
SignatureValues(peer, xff, original, timestamp, body) ==
    LET unsigned == MakeRequest(peer, xff, original, timestamp, body, None)
        path == EffectivePath(unsigned)
        other == IF body = BodyPaid THEN BodyOther ELSE BodyPaid
    IN {None, NonAscii,
        HmacB64(ApiKey, Message(<<"POST">>, path, timestamp, body)),
        HmacB64(ApiKey, Message(<<"POST">>, path, timestamp, other)),
        HmacB64(OtherKey, Message(<<"POST">>, path, timestamp, body))}

\* Requests that exercise the admission gate, with every body and signature
\* kind behind it for the default path and a present timestamp.
AdmissionInputs ==
    UNION {{MakeRequest(peer, xff, None, <<"1700000000">>, body, sig) :
               sig \in SignatureValues(peer, xff, None, <<"1700000000">>, body)} :
           peer \in PeerValues, xff \in XffValues,
           body \in {BodyPaid, BodyMalformed}}

\* Requests from an allowed peer that exercise the signature gate, the
\* payload parser and the classifier.
SignatureInputs ==
    UNION {{MakeRequest("127.0.0.1", None, original, timestamp, body, sig) :
               sig \in SignatureValues("127.0.0.1", None, original, timestamp, body)} :
           original \in OriginalUriValues, timestamp \in TimestampValues,
           body \in Bodies}

RequestInputs == AdmissionInputs \cup SignatureInputs

\* ------------------------------------------------------------- state
VARIABLES
    successful_callbacks, \* self.successful_callbacks
    failed_callbacks,     \* self.failed_callbacks
    decorator,            \* the closure a *_handler() call returned, not yet applied
    returned,             \* what the last decorator(func) call returned
    pc,                   \* per request: position of its _handle_webhook frame
    request,              \* per request: the Request object
    client_ip,            \* per request: local client_ip
    data,                 \* per request: local data
    event,                \* per request: local event
    invoked,              \* per request: callbacks called so far, in order
    completed,            \* per request: callbacks that returned so far
    at_dispatch,          \* per request (history): the matched list when its loop began
    response              \* per request: what the handler returned or raised

registry == <<successful_callbacks, failed_callbacks, decorator, returned>>
frames == <<pc, request, client_ip, data, event, invoked, completed,
            at_dispatch, response>>
vars == <<successful_callbacks, failed_callbacks, decorator, returned, pc, request,
          client_ip, data, event, invoked, completed, at_dispatch, response>>

NoRequest == [method |-> None, url_path |-> None, client_host |-> "",
              headers |-> << >>, body |-> ""]

Init ==
    /\ successful_callbacks = <<>>
    /\ failed_callbacks = <<>>
    /\ decorator = "none"
    /\ returned = "nothing"
    /\ pc = [r \in Requests |-> "idle"]
    /\ request = [r \in Requests |-> NoRequest]
    /\ client_ip = [r \in Requests |-> None]
    /\ data = [r \in Requests |-> None]
    /\ event = [r \in Requests |-> None]
    /\ invoked = [r \in Requests |-> <<>>]
    /\ completed = [r \in Requests |-> 0]
    /\ at_dispatch = [r \in Requests |-> <<>>]
    /\ response = [r \in Requests |-> None]

\* ------------------------------------------------------------- registry
\* successful_handler(): returns the closure `decorator` bound to the
\* success list.
SuccessfulHandler ==
    /\ decorator = "none"
    /\ Len(successful_callbacks) < MaxCallbacks
    /\ decorator' = "successful"
    /\ UNCHANGED <<successful_callbacks, failed_callbacks, returned, frames>>

\* failed_handler(): returns the closure `decorator` bound to the failure list.
FailedHandler ==
    /\ decorator = "none"
    /\ Len(failed_callbacks) < MaxCallbacks
    /\ decorator' = "failed"
    /\ UNCHANGED <<successful_callbacks, failed_callbacks, returned, frames>>

\* Mutant: a handler already in the list is not appended again.
DecoratorOnce(func) ==
    /\ decorator # "none"
    /\ IF decorator = "successful"
       THEN /\ successful_callbacks' =
                  IF \E i \in 1..Len(successful_callbacks) :
                        successful_callbacks[i] = func
                  THEN successful_callbacks
                  ELSE Append(successful_callbacks, func)
            /\ UNCHANGED failed_callbacks
       ELSE /\ failed_callbacks' =
                  IF \E i \in 1..Len(failed_callbacks) :
                        failed_callbacks[i] = func
                  THEN failed_callbacks
                  ELSE Append(failed_callbacks, func)
            /\ UNCHANGED successful_callbacks
    /\ returned' = func
    /\ decorator' = "none"
    /\ UNCHANGED frames

\* decorator(func): self.<list>.append(func); return func
Decorator(func) ==
    /\ decorator # "none"
    /\ IF decorator = "successful"
       THEN /\ successful_callbacks' = Append(successful_callbacks, func)
            /\ UNCHANGED failed_callbacks
       ELSE /\ failed_callbacks' = Append(failed_callbacks, func)
            /\ UNCHANGED successful_callbacks
    /\ returned' = func
    /\ decorator' = "none"
    /\ UNCHANGED frames

\* ------------------------------------------------------------- handler
InFlight == {r \in Requests : pc[r] # "idle"}

\* The server calls _handle_webhook(request) in a fresh frame.
Receive(r, req) ==
    /\ pc[r] = "idle"
    /\ \A q \in Requests : q < r => pc[q] # "idle"
    /\ pc' = [pc EXCEPT ![r] = "get_client_ip"]
    /\ request' = [request EXCEPT ![r] = req]
    /\ UNCHANGED <<registry, client_ip, data, event, invoked, completed,
                   at_dispatch, response>>

\* The frame ends with an outcome: a returned message or a raised exception.
Finish(r, outcome) ==
    /\ pc' = [pc EXCEPT ![r] = "responded"]
    /\ response' = [response EXCEPT ![r] = outcome]

\* client_ip = self.__get_client_ip(request=request)
ResolveClientIp(r) ==
    /\ pc[r] = "get_client_ip"
    /\ LET ip == GetClientIp(request[r])
       IN IF ip = Forbidden
          THEN /\ Finish(r, Forbidden)
               /\ UNCHANGED client_ip
          ELSE /\ client_ip' = [client_ip EXCEPT ![r] = ip]
               /\ pc' = [pc EXCEPT ![r] = "await_json"]
               /\ UNCHANGED response
    /\ UNCHANGED <<registry, request, data, event, invoked, completed,
                   at_dispatch>>

\* data = await request.json(); raw_body = await request.body()
ReadJson(r) ==
    /\ pc[r] = "await_json"
    /\ LET parsed == RequestJson(request[r].body)
       IN IF parsed = JSONDecodeError
          THEN /\ Finish(r, JSONDecodeError)
               /\ UNCHANGED data
          ELSE /\ data' = [data EXCEPT ![r] = parsed]
               /\ pc' = [pc EXCEPT ![r] = "verify"]
               /\ UNCHANGED response
    /\ UNCHANGED <<registry, request, client_ip, event, invoked, completed,
                   at_dispatch>>

\* The signature gate: expected digest against the Walletpay-Signature header.
VerifySignature(r) ==
    /\ pc[r] = "verify"
    /\ LET signature == HeaderGet(request[r].headers, "Walletpay-Signature")
           same == CompareDigest(ExpectedSignature(request[r]), signature)
       IN IF same = TypeError THEN Finish(r, TypeError)
          ELSE IF same = <<"False">> THEN Finish(r, InvalidSignature)
          ELSE /\ pc' = [pc EXCEPT ![r] = "classify"]
               /\ UNCHANGED response
    /\ UNCHANGED <<registry, request, client_ip, data, event, invoked,
                   completed, at_dispatch>>

\* event = Event(data[0])
Classify(r) ==
    /\ pc[r] = "classify"
    /\ IF data[r] = <<>>
       THEN /\ Finish(r, IndexError)
            /\ UNCHANGED event
       ELSE /\ event' = [event EXCEPT ![r] = Event(data[r][1])]
            /\ pc' = [pc EXCEPT ![r] = "dispatch"]
            /\ UNCHANGED response
    /\ UNCHANGED <<registry, request, client_ip, data, invoked, completed,
                   at_dispatch>>

\* Mutant: the two lists are swapped.
MatchedSwapped(ev) ==
    IF ev = <<"ORDER_PAID">> THEN failed_callbacks
    ELSE IF ev = <<"ORDER_FAILED">> THEN successful_callbacks
    ELSE <<>>

\* The callback list the event's type selects, as it is now.
Matched(ev) ==
    IF ev = <<"ORDER_PAID">> THEN successful_callbacks
    ELSE IF ev = <<"ORDER_FAILED">> THEN failed_callbacks
    ELSE <<>>

\* The message returned after the loop over the matched list.
Acknowledgment(ev) ==
    IF ev = <<"ORDER_PAID">> THEN SuccessfulProcessed
    ELSE IF ev = <<"ORDER_FAILED">> THEN FailedProcessed
    ELSE UnknownStatus

\* Mutant: the callbacks are started without being awaited and the handler
\* returns at once.
LoopStepNoAwait(r, ev, done) ==
    /\ invoked' = [invoked EXCEPT
                     ![r] = @ \o SubSeq(Matched(ev), done + 1, Len(Matched(ev)))]
    /\ pc' = [pc EXCEPT ![r] = "responded"]
    /\ response' = [response EXCEPT ![r] = Acknowledgment(ev)]

\* Mutant: the remaining callbacks are started together (a gather) and the
\* handler returns when all of them have completed.
LoopStepGather(r, ev, done) ==
    IF done < Len(Matched(ev)) /\ Len(invoked[r]) = done
    THEN /\ invoked' = [invoked EXCEPT
                          ![r] = @ \o SubSeq(Matched(ev), done + 1,
                                             Len(Matched(ev)))]
         /\ pc' = [pc EXCEPT ![r] = "in_callback"]
         /\ UNCHANGED response
    ELSE IF done < Len(invoked[r])
    THEN /\ pc' = [pc EXCEPT ![r] = "in_callback"]
         /\ UNCHANGED <<invoked, response>>
    ELSE /\ pc' = [pc EXCEPT ![r] = "responded"]
         /\ response' = [response EXCEPT ![r] = Acknowledgment(ev)]
         /\ UNCHANGED invoked

\* One step of `for callback in <list>`: the list iterator is at position
\* `done`; it yields the next entry of the live list, which is called and
\* awaited, or it is exhausted and the handler returns the message.
LoopStep(r, ev, done) ==
    IF done < Len(Matched(ev))
    THEN /\ invoked' = [invoked EXCEPT ![r] = Append(@, Matched(ev)[done + 1])]
         /\ pc' = [pc EXCEPT ![r] = "in_callback"]
         /\ UNCHANGED response
    ELSE /\ Finish(r, Acknowledgment(ev))
         /\ UNCHANGED invoked

\* Mutant: a request that another frame already dispatched is acknowledged
\* without calling the callbacks again.
DispatchDeduplicated(r) ==
    /\ pc[r] = "dispatch"
    /\ IF \E q \in Requests :
            q # r /\ request[q] = request[r]
                /\ pc[q] \in {"in_callback", "responded"}
       THEN /\ Finish(r, Acknowledgment(event[r]))
            /\ UNCHANGED invoked
       ELSE LoopStep(r, event[r], 0)
    /\ at_dispatch' = [at_dispatch EXCEPT ![r] = Matched(event[r])]
    /\ UNCHANGED <<registry, request, client_ip, data, event, completed>>

\* The if/elif/else on event.type and the first pass through the loop.
Dispatch(r) ==
    /\ pc[r] = "dispatch"
    /\ LoopStep(r, event[r], 0)
    /\ at_dispatch' = [at_dispatch EXCEPT ![r] = Matched(event[r])]
    /\ UNCHANGED <<registry, request, client_ip, data, event, completed>>

\* The awaited callback returns; the loop goes on.
CallbackReturn(r) ==
    /\ pc[r] = "in_callback"
    /\ completed' = [completed EXCEPT ![r] = @ + 1]
    /\ LoopStep(r, event[r], completed[r] + 1)
    /\ UNCHANGED <<registry, request, client_ip, data, event, at_dispatch>>

\* Mutant: a callback that raised is taken out of its list.
CallbackRaiseUnregisters(r) ==
    /\ pc[r] = "in_callback"
    /\ Finish(r, CallbackError)
    /\ LET rest(l) == SubSeq(l, 1, Len(invoked[r]) - 1)
                         \o SubSeq(l, Len(invoked[r]) + 1, Len(l))
       IN IF event[r] = <<"ORDER_PAID">>
          THEN /\ successful_callbacks' = rest(successful_callbacks)
               /\ UNCHANGED failed_callbacks
          ELSE /\ failed_callbacks' = rest(failed_callbacks)
               /\ UNCHANGED successful_callbacks
    /\ UNCHANGED <<decorator, returned, request, client_ip, data, event,
                   invoked, completed, at_dispatch>>

\* Mutant: a failed callback makes the handler start its loop again.
CallbackRaiseRetry(r) ==
    /\ pc[r] = "in_callback"
    /\ pc' = [pc EXCEPT ![r] = "dispatch"]
    /\ invoked' = [invoked EXCEPT ![r] = <<>>]
    /\ completed' = [completed EXCEPT ![r] = 0]
    /\ UNCHANGED <<registry, request, client_ip, data, event, at_dispatch,
                   response>>

\* Mutant: the exception is kept until the remaining callbacks were called
\* too, and is raised after them.
CallbackRaiseAfterRest(r) ==
    /\ pc[r] = "in_callback"
    /\ invoked' = [invoked EXCEPT
                     ![r] = @ \o SubSeq(Matched(event[r]), Len(@) + 1,
                                        Len(Matched(event[r])))]
    /\ pc' = [pc EXCEPT ![r] = "responded"]
    /\ response' = [response EXCEPT ![r] = CallbackError]
    /\ UNCHANGED <<registry, request, client_ip, data, event, completed,
                   at_dispatch>>

\* The awaited callback raises; nothing catches it.
CallbackRaise(r) ==
    /\ pc[r] = "in_callback"
    /\ Finish(r, CallbackError)
    /\ UNCHANGED <<registry, request, client_ip, data, event, invoked,
                   completed, at_dispatch>>

\* The response is sent and the frame is released.
Release(r) ==
    /\ pc[r] = "responded"
    /\ pc' = [pc EXCEPT ![r] = "idle"]
    /\ request' = [request EXCEPT ![r] = NoRequest]
    /\ client_ip' = [client_ip EXCEPT ![r] = None]
    /\ data' = [data EXCEPT ![r] = None]
    /\ event' = [event EXCEPT ![r] = None]
    /\ invoked' = [invoked EXCEPT ![r] = <<>>]
    /\ completed' = [completed EXCEPT ![r] = 0]
    /\ at_dispatch' = [at_dispatch EXCEPT ![r] = <<>>]
    /\ response' = [response EXCEPT ![r] = None]
    /\ UNCHANGED registry

\* One request at a time, any request the input sets hold; registration may
\* happen at any moment, also while a request awaits a callback.
Next ==
    \/ SuccessfulHandler
    \/ FailedHandler
    \/ \E f \in Handlers : Decorator(f)
    \/ /\ InFlight = {}
       /\ \E r \in Requests, req \in RequestInputs : Receive(r, req)
    \/ \E r \in Requests : ResolveClientIp(r)
    \/ \E r \in Requests : ReadJson(r)
    \/ \E r \in Requests : VerifySignature(r)
    \/ \E r \in Requests : Classify(r)
    \/ \E r \in Requests : Dispatch(r)
    \/ \E r \in Requests : CallbackReturn(r)
    \/ \E r \in Requests : CallbackRaise(r)
    \/ \E r \in Requests : Release(r)

Spec == Init /\ [][Next]_vars

\* The event loop runs every frame that can go on, and every awaited
\* callback ends, by returning or by raising.
Fairness ==
    \A r \in Requests :
        /\ WF_vars(ResolveClientIp(r))
        /\ WF_vars(ReadJson(r))
        /\ WF_vars(VerifySignature(r))
        /\ WF_vars(Classify(r))
        /\ WF_vars(Dispatch(r))
        /\ WF_vars(CallbackReturn(r) \/ CallbackRaise(r))

\* One request for every way the handler can end: the three event types,
\* an empty array and a body that is no JSON behind a valid signature, a
\* digest under another key, no signature at all, and a peer that is not
\* allowed.
OutcomeInputs ==
    {MakeRequest("127.0.0.1", None, None, <<"1700000000">>, body,
                 HmacB64(ApiKey, Message(<<"POST">>, WebhookEndpoint,
                                         <<"1700000000">>, body))) :
        body \in Bodies}
    \cup
    {MakeRequest(peer, None, None, <<"1700000000">>, BodyPaid, sig) :
        peer \in PeerValues,
        sig \in {None, HmacB64(OtherKey, Message(<<"POST">>, WebhookEndpoint,
                                                <<"1700000000">>, BodyPaid))}}

\* Next with the requests drawn from OutcomeInputs.
NextLive ==
    \/ SuccessfulHandler
    \/ FailedHandler
    \/ \E f \in Handlers : Decorator(f)
    \/ /\ InFlight = {}
       /\ \E r \in Requests, req \in OutcomeInputs : Receive(r, req)
    \/ \E r \in Requests : ResolveClientIp(r)
    \/ \E r \in Requests : ReadJson(r)
    \/ \E r \in Requests : VerifySignature(r)
    \/ \E r \in Requests : Classify(r)
    \/ \E r \in Requests : Dispatch(r)
    \/ \E r \in Requests : CallbackReturn(r)
    \/ \E r \in Requests : CallbackRaise(r)
    \/ \E r \in Requests : Release(r)

SpecLive == Init /\ [][NextLive]_vars /\ Fairness

\* ------------------------------------------------------------- concurrency
\* The callback lists a finished start-up can have left: every sequence of
\* handlers up to the bound.
CallbackLists == UNION {[1..n -> Handlers] : n \in 0..MaxCallbacks}

\* Validly signed ORDER_PAID and ORDER_FAILED notifications of the provider.
ProviderInputs ==
    {MakeRequest("127.0.0.1", None, None, <<"1700000000">>, body,
                 HmacB64(ApiKey, Message(<<"POST">>, WebhookEndpoint,
                                         <<"1700000000">>, body))) :
        body \in {BodyPaid, BodyFailed}}

\* The state after a start-up that registered the success handlers and then
\* the failure handlers (the last decorator call returned the last entry
\* registered); no request is in flight.
InitServing ==
    /\ successful_callbacks \in CallbackLists
    /\ failed_callbacks \in {l \in CallbackLists : Len(l) <= MaxFailedAtStart}
    /\ decorator = "none"
    /\ returned =
          IF failed_callbacks # <<>>
          THEN failed_callbacks[Len(failed_callbacks)]
          ELSE IF successful_callbacks # <<>>
          THEN successful_callbacks[Len(successful_callbacks)]
          ELSE "nothing"
    /\ pc = [r \in Requests |-> "idle"]
    /\ request = [r \in Requests |-> NoRequest]
    /\ client_ip = [r \in Requests |-> None]
    /\ data = [r \in Requests |-> None]
    /\ event = [r \in Requests |-> None]
    /\ invoked = [r \in Requests |-> <<>>]
    /\ completed = [r \in Requests |-> 0]
    /\ at_dispatch = [r \in Requests |-> <<>>]
    /\ response = [r \in Requests |-> None]

\* The server handles requests concurrently: a new frame may start while
\* others are suspended, and the frames' steps interleave. The callbacks
\* return.
NextServing ==
    \/ \E r \in Requests, req \in ProviderInputs : Receive(r, req)
    \/ \E r \in Requests : ResolveClientIp(r)
    \/ \E r \in Requests : ReadJson(r)
    \/ \E r \in Requests : VerifySignature(r)
    \/ \E r \in Requests : Classify(r)
    \/ \E r \in Requests : Dispatch(r)
    \/ \E r \in Requests : CallbackReturn(r)
    \/ \E r \in Requests : Release(r)

SpecServing == InitServing /\ [][NextServing]_vars

\* ------------------------------------------------------------- vocabulary
\* The request of frame r passed admission: __get_client_ip returned.
Admitted(r) == client_ip[r] # None

ProvidedSignature(r) == HeaderGet(request[r].headers, "Walletpay-Signature")
ProvidedTimestamp(r) == HeaderGet(request[r].headers, "WalletPay-Timestamp")
ForwardedFor(r) == HeaderGet(request[r].headers, "X-Forwarded-For")

\* The positions of a forwarding header h that hold a whole entry, that is a
\* single token delimited by ", " or by the ends of the header, which is an
\* allowed IP.
AllowedEntryAt(h) ==
    IF h = None THEN {}
    ELSE {i \in 1..Len(h) :
            /\ h[i] \in ALLOWED_IPS
            /\ i = 1 \/ (i >= 3 /\ h[i - 2] = "," /\ h[i - 1] = " ")
            /\ i = Len(h) \/ (i + 2 <= Len(h) /\ h[i + 1] = "," /\ h[i + 2] = " ")}

FirstOf(S) == CHOOSE i \in S : \A j \in S : i <= j

Acknowledgments == {SuccessfulProcessed, FailedProcessed, UnknownStatus}

\* ------------------------------------------------------------- C1
\* C1: every admitted request whose Walletpay-Signature is present (here: an
\* ASCII text) but differs from the expected signature ends as HTTP 400
\* "Invalid signature", with no event classified and no callback invoked.
C1_MismatchEndsInvalidSignature ==
    \A r \in Requests :
        (/\ pc[r] = "responded"
         /\ Admitted(r)
         /\ ProvidedSignature(r) \notin {None, NonAscii}
         /\ ProvidedSignature(r) # ExpectedSignature(request[r]))
        => (/\ response[r] = InvalidSignature
            /\ event[r] = None
            /\ invoked[r] = <<>>)

\* ------------------------------------------------------------- C2
\* C2: every request that passed admission has a resolved client IP in
\* ALLOWED_IPS, from the peer or from the forwarding header, and a request
\* for which a callback was invoked has such an IP.
C2_AdmittedIpAllowed ==
    \A r \in Requests :
        /\ (pc[r] \notin {"idle", "get_client_ip"} /\ response[r] # Forbidden)
              => (Admitted(r) /\ InAllowedIps(client_ip[r]))
        /\ invoked[r] # <<>> => InAllowedIps(client_ip[r])

\* A callback ran for a request whose peer is not allowed: its IP came from
\* the forwarding header.
C2_Witness ==
    \E r \in Requests :
        /\ invoked[r] # <<>>
        /\ request[r].client_host \notin ALLOWED_IPS
        /\ InAllowedIps(client_ip[r])

\* ------------------------------------------------------------- C3
\* C3: when the handler returns a message, an ORDER_PAID event has had
\* exactly the entries of successful_callbacks invoked, once each and in
\* registration order, and the message is the successful one; an
\* ORDER_FAILED event likewise with failed_callbacks and the failed message;
\* any other type has had no callback invoked and the message is the
\* unknown-status one.
C3_DispatchByType ==
    [][\A r \in Requests :
          (pc[r] # "responded" /\ pc'[r] = "responded"
              /\ response'[r] \in Acknowledgments)
          => (/\ event[r] = <<"ORDER_PAID">>
                   => (/\ invoked'[r] = successful_callbacks'
                       /\ response'[r] = SuccessfulProcessed)
              /\ event[r] = <<"ORDER_FAILED">>
                   => (/\ invoked'[r] = failed_callbacks'
                       /\ response'[r] = FailedProcessed)
              /\ event[r] \notin {<<"ORDER_PAID">>, <<"ORDER_FAILED">>}
                   => (/\ invoked'[r] = <<>>
                       /\ response'[r] = UnknownStatus)
              /\ completed'[r] = Len(invoked'[r]))]_vars

\* An ORDER_FAILED event answered after two different failure callbacks ran
\* in registration order while the success list holds other entries.
C3_Witness ==
    \E r \in Requests :
        /\ response[r] = FailedProcessed
        /\ Len(invoked[r]) = 2
        /\ invoked[r][1] # invoked[r][2]
        /\ invoked[r] = failed_callbacks
        /\ successful_callbacks # <<>>
        /\ successful_callbacks # failed_callbacks

\* ------------------------------------------------------------- C4
\* C4: when the forwarding header is absent, empty, malformed or holds no
\* allowed entry, the direct peer decides: an allowed peer is the resolved
\* IP, and any other peer is answered 403 "IP not allowed" before any
\* payload parsing, signature check or callback.
C4_PeerDecidesWithoutForwardedMatch ==
    \A r \in Requests :
        (pc[r] \notin {"idle", "get_client_ip"}
            /\ AllowedEntryAt(ForwardedFor(r)) = {})
        => IF request[r].client_host \in ALLOWED_IPS
           THEN /\ client_ip[r] = <<request[r].client_host>>
                /\ response[r] # Forbidden
           ELSE /\ pc[r] = "responded"
                /\ response[r] = Forbidden
                /\ client_ip[r] = None
                /\ data[r] = None
                /\ event[r] = None
                /\ invoked[r] = <<>>

\* A request whose header names an allowed IP but is separated by "," alone
\* comes from a peer that is not allowed, and is answered 403.
C4_Witness ==
    \E r \in Requests :
        /\ response[r] = Forbidden
        /\ ForwardedFor(r) # None
        /\ \E i \in 1..Len(ForwardedFor(r)) : ForwardedFor(r)[i] \in ALLOWED_IPS
        /\ AllowedEntryAt(ForwardedFor(r)) = {}

\* ------------------------------------------------------------- C5
\* C5: a request whose forwarding header, split on ", ", holds an allowed
\* entry is admitted with the first such entry in header order as its
\* resolved IP, whatever the direct peer is.
C5_FirstAllowedForwardedEntry ==
    \A r \in Requests :
        (pc[r] \notin {"idle", "get_client_ip"}
            /\ AllowedEntryAt(ForwardedFor(r)) # {})
        => (/\ client_ip[r]
                 = <<ForwardedFor(r)[FirstOf(AllowedEntryAt(ForwardedFor(r)))]>>
            /\ response[r] # Forbidden)

\* A peer that is not allowed is admitted on the first of two allowed
\* entries, which is not the first entry of the header.
C5_Witness ==
    \E r \in Requests :
        /\ request[r].client_host \notin ALLOWED_IPS
        /\ Cardinality(AllowedEntryAt(ForwardedFor(r))) = 2
        /\ 1 \notin AllowedEntryAt(ForwardedFor(r))
        /\ client_ip[r] = <<"172.255.248.12">>
        /\ pc[r] = "classify"

\* ------------------------------------------------------------- C6
\* C6: every admitted request that lacks the Walletpay-Signature header or
\* the WalletPay-Timestamp header ends as HTTP 400 "Invalid signature" with
\* no callback invoked, never in an unhandled error. Stated for the requests
\* whose payload is a well-formed, non-empty array, so that only the
\* signature gate decides.
C6_MissingHeaderEndsInvalidSignature ==
    \A r \in Requests :
        (/\ pc[r] = "responded"
         /\ Admitted(r)
         /\ request[r].body \in {BodyPaid, BodyFailed, BodyOther}
         /\ ProvidedSignature(r) = None \/ ProvidedTimestamp(r) = None)
        => (/\ response[r] = InvalidSignature
            /\ invoked[r] = <<>>)

\* ------------------------------------------------------------- C7
\* C7: every admitted request whose body is no JSON document or is an empty
\* JSON array is answered by the handler itself: it does not end in an
\* unhandled exception, and no callback is invoked.
C7_MalformedPayloadHandled ==
    \A r \in Requests :
        (/\ pc[r] = "responded"
         /\ Admitted(r)
         /\ request[r].body \in {BodyMalformed, BodyEmptyArray})
        => (/\ response[r] \notin Crashes
            /\ invoked[r] = <<>>)

\* ------------------------------------------------------------- C8
\* C8: the handler returns "Successful event processed!" or "Failed event
\* processed!" only in a step after which every callback of the matched
\* list has been invoked and has completed; while a callback is pending the
\* request has no response.
C8_AcknowledgedAfterCallbacks ==
    [][\A r \in Requests :
          /\ (response[r] = None
                /\ response'[r] \in {SuccessfulProcessed, FailedProcessed})
             => (/\ completed'[r] = Len(invoked'[r])
                 /\ completed'[r] =
                      Len(IF event[r] = <<"ORDER_PAID">>
                          THEN successful_callbacks' ELSE failed_callbacks'))
          /\ completed'[r] < Len(invoked'[r])
             => response'[r] \notin Acknowledgments]_vars

\* A successful acknowledgment after two callbacks completed.
C8_Witness ==
    \E r \in Requests :
        /\ response[r] = SuccessfulProcessed
        /\ completed[r] = 2
        /\ Len(invoked[r]) = 2

\* ------------------------------------------------------------- C9
Count(f, seq) == Cardinality({i \in 1..Len(seq) : seq[i] = f})

IsPrefix(s, t) == Len(s) <= Len(t) /\ SubSeq(t, 1, Len(s)) = s

\* C9: applying the decorator of successful_handler() (of failed_handler())
\* appends exactly the one entry it returns at the end of the success
\* (failure) list and changes neither the other list nor any request; in
\* every step each list extends its earlier value; and a handler that is k
\* times in the matched list has been invoked k times when the request is
\* acknowledged.
C9_RegistrationAppends ==
    [][/\ (decorator = "successful" /\ decorator' = "none")
           => (/\ successful_callbacks' = Append(successful_callbacks, returned')
               /\ failed_callbacks' = failed_callbacks
               /\ frames' = frames)
       /\ (decorator = "failed" /\ decorator' = "none")
           => (/\ failed_callbacks' = Append(failed_callbacks, returned')
               /\ successful_callbacks' = successful_callbacks
               /\ frames' = frames)
       /\ IsPrefix(successful_callbacks, successful_callbacks')
       /\ IsPrefix(failed_callbacks, failed_callbacks')
       /\ \A r \in Requests : \A f \in Handlers :
             /\ (response[r] = None /\ response'[r] = SuccessfulProcessed)
                => Count(f, invoked'[r]) = Count(f, successful_callbacks')
             /\ (response[r] = None /\ response'[r] = FailedProcessed)
                => Count(f, invoked'[r]) = Count(f, failed_callbacks')]_vars

\* The same handler registered twice for success, and invoked twice for one
\* acknowledged ORDER_PAID request.
C9_Witness ==
    /\ successful_callbacks = <<"f1", "f1">>
    /\ returned = "f1"
    /\ \E r \in Requests :
          /\ response[r] = SuccessfulProcessed
          /\ invoked[r] = <<"f1", "f1">>

\* ------------------------------------------------------------- C10
\* C10: the stages of a request run in the order resolve, verify, classify,
\* dispatch: the JSON payload is parsed only after the signature check has
\* passed, so a frame that holds parsed data holds a request whose provided
\* signature is the expected one.
C10_ParsedOnlyAfterVerified ==
    \A r \in Requests :
        data[r] # None
        => (/\ Admitted(r)
            /\ ProvidedSignature(r) = ExpectedSignature(request[r]))

\* ------------------------------------------------------------- C11
\* C11: dispatch iterates a snapshot of the matched list: the callbacks
\* invoked for a request are, in order, entries of the list as it was when
\* the request's loop began, and an acknowledged request has had exactly
\* that list invoked; a handler registered while the request awaits a
\* callback is not invoked for it.
C11_DispatchIteratesSnapshot ==
    \A r \in Requests :
        /\ IsPrefix(invoked[r], at_dispatch[r])
        /\ response[r] \in {SuccessfulProcessed, FailedProcessed}
              => invoked[r] = at_dispatch[r]

\* ------------------------------------------------------------- C12
\* C12: when the i-th callback of the matched list raises, the request ends
\* with that error: the callbacks before it have each been invoked once, in
\* list order, and have completed, the raising one is the last one invoked,
\* and from then on nothing more is invoked or completed for the request and
\* its outcome stays the error (no retry, no acknowledgment).
C12_RaiseStopsDispatch ==
    [][\A r \in Requests :
          /\ response'[r] = CallbackError
             => (/\ pc'[r] = "responded"
                 /\ Len(invoked'[r]) = completed'[r] + 1
                 /\ IsPrefix(invoked'[r],
                             IF event'[r] = <<"ORDER_PAID">>
                             THEN successful_callbacks'
                             ELSE failed_callbacks'))
          /\ response[r] = CallbackError
             => \/ pc'[r] = "idle"
                \/ /\ invoked'[r] = invoked[r]
                   /\ completed'[r] = completed[r]
                   /\ response'[r] = response[r]
                   /\ pc'[r] = pc[r]]_vars

\* The first of two registered callbacks raised: the second was not invoked.
C12_Witness ==
    \E r \in Requests :
        /\ response[r] = CallbackError
        /\ completed[r] = 0
        /\ Len(invoked[r]) = 1
        /\ Len(Matched(event[r])) = 2

\* ------------------------------------------------------------- C13
\* C13: with requests handled concurrently, every request has at most one
\* of its callbacks pending, and a step that invokes a callback for a
\* request invokes exactly the next entry of the matched list, after all the
\* callbacks invoked before for that request have completed.
C13_CallbacksSequentialPerRequest ==
    [][\A r \in Requests :
          /\ Len(invoked'[r]) - completed'[r] \in {0, 1}
          /\ (invoked'[r] # invoked[r] /\ pc'[r] # "idle")
             => (/\ Len(invoked[r]) < Len(Matched(event[r]))
                 /\ invoked'[r] =
                       Append(invoked[r],
                              Matched(event[r])[Len(invoked[r]) + 1])
                 /\ completed'[r] = Len(invoked[r]))]_vars

\* Two requests are suspended in a callback at the same time, one in its
\* second callback and one in its first.
C13_Witness ==
    \E r, q \in Requests :
        /\ r # q
        /\ pc[r] = "in_callback" /\ pc[q] = "in_callback"
        /\ completed[r] = 1 /\ Len(invoked[r]) = 2
        /\ completed[q] = 0 /\ Len(invoked[q]) = 1

\* ------------------------------------------------------------- C14
\* The order of the positions of a frame.
Rank(p) ==
    CASE p = "idle" -> 0
      [] p = "get_client_ip" -> 1
      [] p = "await_json" -> 2
      [] p = "verify" -> 3
      [] p = "classify" -> 4
      [] p = "dispatch" -> 5
      [] p = "in_callback" -> 6
      [] p = "responded" -> 7

PassedGate(r) ==
    \/ pc[r] \in {"classify", "dispatch", "in_callback"}
    \/ pc[r] = "responded"
         /\ response[r] \in Acknowledgments \cup {IndexError, CallbackError}

\* The frame went through the signature gate and the gate stopped it.
StoppedAtGate(r) ==
    pc[r] = "responded" /\ data[r] # None
        /\ response[r] \in {InvalidSignature, TypeError}

\* The path the claim names: X-Original-URI when present and non-empty,
\* otherwise the locally parsed path.
ClaimedPath(req) ==
    IF "X-Original-URI" \in DOMAIN req.headers
          /\ req.headers["X-Original-URI"] # <<>>
    THEN req.headers["X-Original-URI"]
    ELSE req.url_path

\* The gate's verdict on signature sig for the four fields under a key.
GateAccepts(key, method, path, timestamp, body, sig) ==
    CompareDigest(HmacB64(key, Message(method, path, timestamp, body)), sig)
        = <<"True">>

\* Values a single field can be changed to.
MethodChoices == {<<"POST">>, <<"GET">>}
PathChoices == {WebhookEndpoint, <<"/hook">>}
TimestampChoices == {None, <<"1700000000">>, <<"1700000001">>, <<"None">>}

\* C15: the gate passes exactly when the provided signature is the digest,
\* under the secret key, of method, effective path, timestamp header value
\* and raw body; and a signature that passed is refused as soon as any
\* single one of the four fields, or the key, is changed.
C15_GateExactAndSensitive ==
    \A r \in Requests :
        LET req == request[r]
            sig == ProvidedSignature(r)
            ts == ProvidedTimestamp(r)
            path == ClaimedPath(req)
        IN /\ PassedGate(r)
                => GateAccepts(ApiKey, req.method, path, ts, req.body, sig)
           /\ StoppedAtGate(r)
                => ~GateAccepts(ApiKey, req.method, path, ts, req.body, sig)
           /\ PassedGate(r)
                => (/\ \A m \in MethodChoices \ {req.method} :
                          ~GateAccepts(ApiKey, m, path, ts, req.body, sig)
                    /\ \A p \in PathChoices \ {path} :
                          ~GateAccepts(ApiKey, req.method, p, ts, req.body, sig)
                    /\ \A t \in TimestampChoices \ {ts} :
                          ~GateAccepts(ApiKey, req.method, path, t, req.body, sig)
                    /\ \A b \in Bodies \ {req.body} :
                          ~GateAccepts(ApiKey, req.method, path, ts, b, sig)
                    /\ ~GateAccepts(OtherKey, req.method, path, ts, req.body, sig))

\* The same statement without a change of the timestamp from absent to the
\* text None or back: everything else of C15.
C15_ExceptAbsentTimestamp ==
    \A r \in Requests :
        LET req == request[r]
            sig == ProvidedSignature(r)
            ts == ProvidedTimestamp(r)
            path == ClaimedPath(req)
        IN /\ PassedGate(r)
                => GateAccepts(ApiKey, req.method, path, ts, req.body, sig)
           /\ StoppedAtGate(r)
                => ~GateAccepts(ApiKey, req.method, path, ts, req.body, sig)
           /\ PassedGate(r)
                => (/\ \A m \in MethodChoices \ {req.method} :
                          ~GateAccepts(ApiKey, m, path, ts, req.body, sig)
                    /\ \A p \in PathChoices \ {path} :
                          ~GateAccepts(ApiKey, req.method, p, ts, req.body, sig)
                    /\ \A t \in TimestampChoices \ {ts} :
                          Format(t) # Format(ts)
                          => ~GateAccepts(ApiKey, req.method, path, t, req.body, sig)
                    /\ \A b \in Bodies \ {req.body} :
                          ~GateAccepts(ApiKey, req.method, path, ts, b, sig)
                    /\ ~GateAccepts(OtherKey, req.method, path, ts, req.body, sig))

\* ------------------------------------------------------------- C16
\* C16: the handler keeps nothing about earlier deliveries: every delivery
\* of a validly signed request, whatever other deliveries of the same
\* request are in flight or were answered before, passes the gates and is
\* acknowledged after each callback of the matched list was invoked once
\* for it.
C16_EveryDeliveryDispatched ==
    \A r \in Requests :
        /\ pc[r] # "idle" => response[r] \in {None} \cup Acknowledgments
        /\ pc[r] = "responded"
             => (/\ response[r] = Acknowledgment(event[r])
                 /\ invoked[r] = Matched(event[r])
                 /\ completed[r] = Len(invoked[r]))

\* Two deliveries of the same ORDER_PAID request are both acknowledged, each
\* after both success callbacks ran for it.
C16_Witness ==
    \E r, q \in Requests :
        /\ r # q
        /\ request[r] = request[q]
        /\ response[r] = SuccessfulProcessed /\ response[q] = SuccessfulProcessed
        /\ Len(invoked[r]) = 2
        /\ invoked[r] = invoked[q]

\* ------------------------------------------------------------- C17
\* C17: a step of a request's handling, whatever its outcome, leaves the
\* callback lists and the registry as they are, and a step that changes a
\* callback list is the application of a decorator and touches no request.
\* (ALLOWED_IPS and the secret key are never assigned by the handler: they
\* are definitions here.)
C17_HandlingLeavesManagerUnchanged ==
    [][/\ frames' # frames
          => /\ successful_callbacks' = successful_callbacks
             /\ failed_callbacks' = failed_callbacks
             /\ decorator' = decorator
             /\ returned' = returned
       /\ (successful_callbacks' # successful_callbacks
              \/ failed_callbacks' # failed_callbacks)
          => /\ decorator # "none"
             /\ decorator' = "none"
             /\ frames' = frames]_vars

\* A request ended with the error of a callback while both lists hold the
\* handlers registered before.
C17_Witness ==
    \E r \in Requests :
        /\ response[r] = CallbackError
        /\ Len(successful_callbacks) = 2
        /\ Len(failed_callbacks) = 2
        /\ at_dispatch[r] = Matched(event[r])

====
